---- MODULE Spec2Model ----
(***************************************************************************)
(* Model of the retrieval pipeline of src/api/retrieval.py: the _LRU       *)
(* caches, the title stage, page rerank, chunk accumulation, the full-text *)
(* passes and the ranking of Retriever.search.                             *)
(*                                                                         *)
(* Similarities are cosines scaled by 100 (0.28 is 28).  A text, a meta    *)
(* tuple and an embedding row are each named by the chunk they come from   *)
(* (10 * path + position in the page).                                     *)
(***************************************************************************)
EXTENDS Integers, Sequences, FiniteSets, TLC

VARIABLES
    lru,            \* the _LRU object under test (LRU specification)
    lruT,           \* observation of the last get/set on lru
    world,          \* the archive and the collaborators' answers (immutable)
    chunk_cache,    \* Retriever._chunk_cache
    lead_cache,     \* Retriever._lead_cache
    suggest_cache,  \* Retriever._suggest_cache
    call            \* observation of the last search call

vars == <<lru, lruT, world, chunk_cache, lead_cache, suggest_cache, call>>

Max(a, b) == IF a >= b THEN a ELSE b
Min(a, b) == IF a <= b THEN a ELSE b

RemoveAt(s, i) == SubSeq(s, 1, i - 1) \o SubSeq(s, i + 1, Len(s))

Range(s) == {s[i] : i \in 1..Len(s)}

(***************************************************************************)
(* _LRU: an OrderedDict, oldest entry first, as a sequence of [k, v].      *)
(***************************************************************************)
IndexOf(d, key) ==
    IF \E i \in 1..Len(d) : d[i].k = key
    THEN CHOOSE i \in 1..Len(d) : d[i].k = key
    ELSE 0

LRUInit(cap) == [cap |-> Max(0, cap), d |-> <<>>]

\* popitem(last=False) while len > cap
LRUEvictBroken(d, cap) == IF Len(d) > cap + 1 THEN SubSeq(d, Len(d) - cap, Len(d)) ELSE d

LRUEvict(d, cap) == IF Len(d) > cap THEN SubSeq(d, Len(d) - cap + 1, Len(d)) ELSE d

\* the value get returns: <<>> is None, <<v>> is a hit
LRUGet(c, key) ==
    IF c.cap = 0 THEN <<>>
    ELSE IF IndexOf(c.d, key) = 0 THEN <<>>
    ELSE <<c.d[IndexOf(c.d, key)].v>>

\* the cache after get: a hit moves the key to the end
LRUTouchBroken(c, key) == c

LRUTouch(c, key) ==
    IF c.cap = 0 \/ IndexOf(c.d, key) = 0 THEN c
    ELSE [c EXCEPT !.d = Append(RemoveAt(c.d, IndexOf(c.d, key)), c.d[IndexOf(c.d, key)])]

LRUSet(c, key, val) ==
    IF c.cap = 0 THEN c
    ELSE LET d1 == IF IndexOf(c.d, key) # 0
                   THEN Append(RemoveAt(c.d, IndexOf(c.d, key)), [k |-> key, v |-> val])
                   ELSE Append(c.d, [k |-> key, v |-> val])
         IN [c EXCEPT !.d = LRUEvict(d1, c.cap)]

LRUKeys(c) == {c.d[i].k : i \in 1..Len(c.d)}

(***************************************************************************)
(* Program constants (module level of retrieval.py), scaled down.          *)
(***************************************************************************)
MAX_ARTICLES == 20
MAX_CHUNKS == 3
RECALL_LIMIT == 2
SIM_THRESHOLD == 22
\* SECOND_PASS_FACTOR in tenths (1.8)
SECOND_PASS_FACTOR10 == 18
SUGGESTION_LIMIT == 3
TITLE_SIM_EXIT == 28
\* EMBED_LRU_SIZE: caching disabled, or two entries
EmbedLruSizes == {0, 2}
SUGGEST_LRU_SIZE == 1
TOP_PAGES == 2
PLACEHOLDER == 100

(***************************************************************************)
(* Bounds of the model.                                                    *)
(***************************************************************************)
MaxTopK == 2
MaxEncFail == 6
MaxCap == 2
NumKeys == 3
NumVals == 2
MaxLruOps == 5
MaxWords == 8
MaxSize == 3
MaxSections == 2
MaxChunkCap == 4
MaxRows == 12
MaxHits == 4
MaxRecall == 3
MaxPaths == 3
MaxCallPaths == 2
MaxLines == 3

(***************************************************************************)
(* The archive (read-only): five paths.                                    *)
(*   1, 2: a lead and two chunks each   3: a lead and no chunk             *)
(*   4: no lead, one chunk              5: absent (get_entry_by_path fails)*)
(***************************************************************************)
Paths == 1..5

\* zim.get_entry_by_path(p) succeeds
EntryExists(p) == p \in 1..4

\* _extract_lead(entry)[1] is non-empty
HasLead(p) == p \in 1..3

\* _extract_chunks(entry): the page's chunks, at most MAX_CHUNKS of them
ExtractChunks(p) ==
    LET all == IF p \in {1, 2} THEN <<10 * p + 1, 10 * p + 2>>
               ELSE IF p = 4 THEN <<41>> ELSE <<>>
    IN SubSeq(all, 1, Min(Len(all), MAX_CHUNKS))

Chunks == {11, 12, 21, 22, 41}

PageOf(c) == c \div 10

\* the (title, url, snippet) tuple of a chunk
MetaOf(c) == [title |-> c, url |-> PageOf(c), snippet |-> c]

(***************************************************************************)
(* Chunking.  A section is its number of words; a window <<s, t>> is the   *)
(* word slice words[s:t]; a chunk is [sec, s, t]: a slice of section sec.  *)
(***************************************************************************)
CHUNK_TOKENS == 160

CHUNK_OVERLAP == 20

\* the while loop of _chunks from position start, acc the windows yielded
RECURSIVE ChunksFrom(_, _, _, _, _)
ChunksFrom(n, size_tokens, overlap, start, acc) ==
    IF ~(start < n) THEN acc
    ELSE LET end == Min(n, start + size_tokens)
         IN IF end = n THEN Append(acc, <<start, end>>)
            ELSE ChunksFrom(n, size_tokens, overlap, Max(0, end - overlap),
                            Append(acc, <<start, end>>))

\* _chunks with the next window starting where the previous one ended
ChunksOfDisjoint(n, size_tokens, overlap) ==
    IF n = 0 THEN <<>> ELSE ChunksFrom(n, size_tokens, 0, 0, <<>>)

\* _chunks(words, size_tokens, overlap) for n words
ChunksOf(n, size_tokens, overlap) ==
    IF n = 0 THEN <<>> ELSE ChunksFrom(n, size_tokens, overlap, 0, <<>>)

\* the inner loop of _extract_chunks over the windows ws of section i:
\* append, and break when the cap is reached
RECURSIVE AppendWindows(_, _, _, _, _)
AppendWindows(acc, ws, j, i, cap) ==
    IF j > Len(ws) THEN acc
    ELSE LET a == Append(acc, [sec |-> i, s |-> ws[j][1], t |-> ws[j][2]])
         IN IF Len(a) >= cap THEN a ELSE AppendWindows(a, ws, j + 1, i, cap)

\* the section loop with every section kept whole, whatever its length
ExtractLoopWhole(secs, size_tokens, overlap, cap, i, acc) ==
    [j \in 1..Len(secs) |-> [sec |-> j, s |-> 0, t |-> secs[j]]]

\* the section loop of _extract_chunks (lines 151-168)
RECURSIVE ExtractLoop(_, _, _, _, _, _)
ExtractLoop(secs, size_tokens, overlap, cap, i, acc) ==
    IF i > Len(secs) THEN acc
    ELSE IF secs[i] = 0 THEN ExtractLoop(secs, size_tokens, overlap, cap, i + 1, acc)
    ELSE LET a == IF secs[i] > size_tokens * 2
                  THEN AppendWindows(acc, ChunksOf(secs[i], size_tokens, overlap), 1, i, cap)
                  ELSE Append(acc, [sec |-> i, s |-> 0, t |-> secs[i]])
         IN IF Len(a) >= cap THEN a
            ELSE ExtractLoop(secs, size_tokens, overlap, cap, i + 1, a)

\* _extract_chunks on a page with sections secs, under the given configuration
ExtractSections(secs, size_tokens, overlap, cap) ==
    ExtractLoop(secs, size_tokens, overlap, cap, 1, <<>>)

(***************************************************************************)
(* Queries.  A raw query is a sequence of words; the collaborators'        *)
(* answers to it are fields of the immutable world:                        *)
(*   sug    candidate phrase -> paths of SuggestionSearcher.suggest        *)
(*   sugfail  the candidate phrases on which the suggest call raises       *)
(*   trows  paths of the rows search_titles returns                        *)
(*   hits   ranked paths of the archive's full-text search                 *)
(*   lsim   path  -> similarity of the query to "title. lead"              *)
(*   csim   chunk -> similarity of the query to the chunk                  *)
(*   removed  paths taken out of the candidate lists: none in any world of *)
(*          the specification; the comparison of a call with the same call *)
(*          on shorter candidate lists sets it                             *)
(***************************************************************************)
Lower(word) == IF word \in {"Rome", "ROME"} THEN "rome" ELSE word

\* a run of whitespace in a raw query
Space == " "

\* _normalize_query: whitespace collapsed (a sequence of words), lowercased
NormalizeQuery(q) ==
    [i \in 1..Len(SelectSeq(q, LAMBDA t : t # Space)) |->
        Lower(SelectSeq(q, LAMBDA t : t # Space)[i])]

Stop == {"the", "of", "what"}

\* tokens of the normalized query that survive the stop list
Tokens(q) == SelectSeq(NormalizeQuery(q), LAMBDA t : t \notin Stop)

RECURSIVE DedupFrom(_, _, _)
DedupFrom(s, i, acc) ==
    IF i > Len(s) THEN acc
    ELSE DedupFrom(s, i + 1, IF s[i] \in Range(acc) THEN acc ELSE Append(acc, s[i]))

\* order-preserving removal of duplicates
Dedup(s) == DedupFrom(s, 1, <<>>)

\* candidate phrases: unigrams, adjacent bigrams, the last token
Cands(q) ==
    LET t == Tokens(q)
        uni == [i \in 1..Len(t) |-> <<t[i]>>]
        bi == [i \in 1..(Len(t) - 1) |-> <<t[i], t[i + 1]>>]
    IN Dedup(uni \o bi \o (IF Len(t) > 0 THEN <<<<t[Len(t)]>>>> ELSE <<>>))

Prefix(s, n) == SubSeq(s, 1, Min(Len(s), n))

\* a candidate list as the loops iterate over it
Kept(w, paths) == SelectSeq(paths, LAMBDA p : p \notin w.removed)

\* the results of one candidate: none when the suggest call raises (the
\* except/continue of lines 298-299), else getResults(0, take)
SuggestResults(w, cand) ==
    IF cand \in w.sugfail THEN <<>> ELSE Prefix(w.sug[cand], SUGGESTION_LIMIT)

\* the suggestion loop (lines 284-299): every result is appended, the loop
\* stops when out holds SUGGESTION_LIMIT paths; st = [out, asked], asked the
\* candidates queried so far
RECURSIVE SuggestLoop(_, _, _, _)
SuggestLoop(w, cands, i, st) ==
    IF i > Len(cands) \/ Len(st.out) >= SUGGESTION_LIMIT THEN st
    ELSE SuggestLoop(w, cands, i + 1,
             [out |-> st.out \o Prefix(SuggestResults(w, cands[i]),
                                       Max(SUGGESTION_LIMIT - Len(st.out), 1)),
              asked |-> Append(st.asked, cands[i])])

\* the suggestion loop of a query from its start
Suggested(w, q) == SuggestLoop(w, Cands(q), 1, [out |-> <<>>, asked |-> <<>>])

\* every row of the title index, whatever the limit
SearchTitlesAll(w, limit) == w.trows

\* search_titles(dir, token_query, limit): the first limit rows
SearchTitles(w, limit) == Prefix(w.trows, limit)

\* out: suggestion-engine paths, then the title-index rows (lines 282-308)
SuggestOut(w, q) ==
    Suggested(w, q).out \o SearchTitles(w, Max(10, SUGGESTION_LIMIT))

\* the value stored in the suggestion cache (line 316)
SuggestEntryBroken(out, deduped) == [paths |-> out]

SuggestEntry(out, deduped) == [paths |-> deduped]

\* a cache miss: the collected paths are deduplicated, stored and returned
\* (lines 309-317)
SuggestStore(sc, qn, out, deduped) ==
    [paths |-> deduped, sc |-> LRUSet(sc, qn, SuggestEntry(out, deduped)), hit |-> FALSE]

SuggestMiss(sc, qn, out) == SuggestStore(sc, qn, out, Dedup(out))

\* a stored empty list taken for a miss
TitleSuggestPathsFalsy(w, sc, q) ==
    LET qn == NormalizeQuery(q)
        cached == LRUGet(sc, qn)
    IN IF Len(cached) > 0 /\ cached[1].paths # <<>>
       THEN [paths |-> cached[1].paths, sc |-> LRUTouch(sc, qn), hit |-> TRUE]
       ELSE SuggestMiss(sc, qn, SuggestOut(w, q))

\* _title_suggest_paths: [paths, sc (the suggestion cache afterwards), hit]
TitleSuggestPaths(w, sc, q) ==
    LET qn == NormalizeQuery(q)
        cached == LRUGet(sc, qn)
    IN IF Len(cached) > 0
       THEN [paths |-> cached[1].paths, sc |-> LRUTouch(sc, qn), hit |-> TRUE]
       ELSE SuggestMiss(sc, qn, SuggestOut(w, q))

(***************************************************************************)
(* The encoder.  Encode calls of one search are numbered 1, 2, ...; the    *)
(* fault f of the call says which of them raises (f.enc, 0: none) and      *)
(* which full-text pass raises inside Searcher (f.ft, 0: none).            *)
(***************************************************************************)
EncodeFails(f, n) == f.enc # 0 /\ n = f.enc

LeadSim(w, emb) == w.lsim[emb]

ChunkSim(w, emb) == w.csim[emb]

\* the page-rerank loop over title_paths (lines 330-350);
\* st = [lc, enc, scores, raised, hits]
RECURSIVE RerankLoop(_, _, _, _, _)
RerankLoop(w, f, paths, i, st) ==
    IF i > Len(paths) \/ st.raised THEN st
    ELSE LET p == paths[i]
             cached == LRUGet(st.lc, p)
         IN IF Len(cached) > 0
            THEN RerankLoop(w, f, paths, i + 1,
                     [st EXCEPT !.lc = LRUTouch(st.lc, p), !.hits = @ + 1,
                                !.scores = Append(@, [s |-> LeadSim(w, cached[1].emb),
                                                      p |-> p, t |-> cached[1].title])])
            ELSE IF ~EntryExists(p) \/ ~HasLead(p)
            THEN RerankLoop(w, f, paths, i + 1, st)
            ELSE IF EncodeFails(f, st.enc + 1)
            THEN [st EXCEPT !.enc = @ + 1, !.raised = TRUE]
            ELSE RerankLoop(w, f, paths, i + 1,
                     [st EXCEPT !.lc = LRUSet(st.lc, p, [emb |-> p, title |-> p]),
                                !.enc = @ + 1,
                                !.scores = Append(@, [s |-> LeadSim(w, p), p |-> p, t |-> p])])

\* list.sort(key=lambda x: -x[0]): stable, descending by score
RECURSIVE SortPagesFrom(_, _, _)
SortPagesFrom(s, i, acc) ==
    IF i > Len(s) THEN acc
    ELSE LET n == Cardinality({j \in 1..Len(acc) : acc[j].s >= s[i].s})
         IN SortPagesFrom(s, i + 1, SubSeq(acc, 1, n) \o <<s[i]>> \o SubSeq(acc, n + 1, Len(acc)))

\* a descending sort that puts equal scores in reverse candidate order
SortPagesTiesLast(s) == SortPagesFrom([i \in 1..Len(s) |-> s[Len(s) + 1 - i]], 1, <<>>)

SortPages(s) == SortPagesFrom(s, 1, <<>>)

\* the cache given the lists cut to what the call took of the page
CacheEntryTaken(texts, meta, emb, take) ==
    [texts |-> SubSeq(texts, 1, take), meta |-> SubSeq(meta, 1, take),
     emb |-> SubSeq(emb, 1, take)]

\* what the cache stores for a freshly extracted page: the full lists
CacheEntry(texts, meta, emb, take) == [texts |-> texts, meta |-> meta, emb |-> emb]

\* texts, metadata and embeddings of a page that is extracted and encoded now
FreshEntry(p) == [texts |-> ExtractChunks(p), meta |-> ExtractChunks(p), emb |-> ExtractChunks(p)]

\* the first take chunks of page p (entry e, from the cache when hit) join the
\* accumulated lists; a fresh page is stored in the cache
ChunkAdd(p, st, hit, e, take) ==
    [cc |-> IF hit THEN LRUTouch(st.cc, p)
            ELSE LRUSet(st.cc, p, CacheEntry(e.texts, e.meta, e.emb, take)),
     enc |-> IF hit THEN st.enc ELSE st.enc + 1,
     texts |-> st.texts \o SubSeq(e.texts, 1, take),
     meta |-> st.meta \o SubSeq(e.meta, 1, take),
     embs |-> st.embs \o SubSeq(e.emb, 1, take),
     raised |-> FALSE,
     hits |-> IF hit THEN st.hits + 1 ELSE st.hits]

\* a page with no chunk is skipped; the chunks of a fresh page are encoded
ChunkPage(f, p, st, hit, e) ==
    IF Len(e.texts) = 0 THEN [st EXCEPT !.cc = LRUTouch(st.cc, p)]
    ELSE IF ~hit /\ EncodeFails(f, st.enc + 1)
    THEN [st EXCEPT !.enc = @ + 1, !.raised = TRUE]
    ELSE ChunkAdd(p, st, hit, e, Min(Len(e.texts), MAX_CHUNKS - Len(st.texts)))

\* a failed fetch ends the loop with an exception
ChunkStepOnRaising(f, p, st, cached) ==
    IF Len(cached) > 0 THEN ChunkPage(f, p, st, TRUE, cached[1])
    ELSE IF ~EntryExists(p) THEN [st EXCEPT !.raised = TRUE]
    ELSE ChunkPage(f, p, st, FALSE, FreshEntry(p))

\* cached is the answer of the chunk cache for page p
ChunkStepOn(f, p, st, cached) ==
    IF Len(cached) > 0 THEN ChunkPage(f, p, st, TRUE, cached[1])
    ELSE IF ~EntryExists(p) THEN st
    ELSE ChunkPage(f, p, st, FALSE, FreshEntry(p))

\* one page of a chunk accumulation loop (lines 364-390 and 220-247);
\* st = [cc, enc, texts, meta, embs, raised, hits]
ChunkStep(w, f, p, st) == ChunkStepOn(f, p, st, LRUGet(st.cc, p))

\* the loop without the test of the cap before each page
RECURSIVE ChunkLoopNoBreak(_, _, _, _, _)
ChunkLoopNoBreak(w, f, paths, i, st) ==
    IF i > Len(paths) \/ st.raised THEN st
    ELSE ChunkLoopNoBreak(w, f, paths, i + 1, ChunkStep(w, f, paths[i], st))

\* a chunk accumulation loop: stop at MAX_CHUNKS or when the encoder raised
RECURSIVE ChunkLoop(_, _, _, _, _)
ChunkLoop(w, f, paths, i, st) ==
    IF i > Len(paths) \/ st.raised \/ Len(st.texts) >= MAX_CHUNKS THEN st
    ELSE ChunkLoop(w, f, paths, i + 1, ChunkStep(w, f, paths[i], st))

\* the recalled paths of one full-text pass (lines 199-213)
RecallPaths(w, f, pass, wanted, recall_limit) ==
    IF f.ft = pass THEN <<>>
    ELSE LET d == Dedup(Prefix(w.hits, wanted))
         IN Kept(w, Prefix(d, Max(recall_limit, 1)))

\* _recall_and_chunks: st = [cc, enc, texts, meta, embs, raised]
RecallAndChunks(w, f, pass, wanted, recall_limit, cc, enc) ==
    ChunkLoop(w, f, RecallPaths(w, f, pass, wanted, recall_limit), 1,
              [cc |-> cc, enc |-> enc, texts |-> <<>>, meta |-> <<>>, embs |-> <<>>,
               raised |-> FALSE, hits |-> 0])

(***************************************************************************)
(* Ranking.                                                                *)
(***************************************************************************)
RECURSIVE SeqMax(_)
SeqMax(s) == IF Len(s) = 1 THEN s[1] ELSE Max(s[1], SeqMax(Tail(s)))

\* np.argsort(-scores): indices by descending score.  The call names no
\* kind, so the sort is NumPy's default one, which is not stable: the order
\* of equal scores is whatever the build's sort produces (w.argsort), by
\* index ("stable") or against it ("reversed").
RECURSIVE ArgsortFrom(_, _, _, _)
ArgsortFrom(w, scores, i, acc) ==
    IF i > Len(scores) THEN acc
    ELSE LET n == Cardinality({j \in 1..Len(acc) :
                      \/ scores[acc[j]] > scores[i]
                      \/ scores[acc[j]] = scores[i] /\ w.argsort = "stable"})
         IN ArgsortFrom(w, scores, i + 1,
                        SubSeq(acc, 1, n) \o <<i>> \o SubSeq(acc, n + 1, Len(acc)))

\* argsort of scores instead of -scores: ascending
ArgsortAscending(w, scores) == [i \in 1..Len(scores) |->
                                ArgsortFrom(w, scores, 1, <<>>)[Len(scores) + 1 - i]]

ArgsortDesc(w, scores) == ArgsortFrom(w, scores, 1, <<>>)

\* the item list with ids counted from 1
ItemsOneBased(top, meta, scores, top_k) ==
    Prefix([i \in 1..Len(top) |->
               [id |-> i, title |-> MetaOf(meta[top[i]]).title,
                url |-> MetaOf(meta[top[i]]).url,
                snippet |-> MetaOf(meta[top[i]]).snippet,
                score |-> scores[top[i]]]], top_k)

\* the RetrievalItem list built from the index list top, cut to top_k
Items(top, meta, scores, top_k) ==
    Prefix([i \in 1..Len(top) |->
               [id |-> i - 1, title |-> MetaOf(meta[top[i]]).title,
                url |-> MetaOf(meta[top[i]]).url,
                snippet |-> MetaOf(meta[top[i]]).snippet,
                score |-> scores[top[i]]]], top_k)

\* argsort(-scores)[: max(top_k, 1)], then items[:top_k]
RankedBroken(w, meta, scores, top_k) ==
    Items(Prefix(ArgsortDesc(w, scores), Max(top_k, 1)), meta, scores, Max(top_k, 1))

Ranked(w, meta, scores, top_k) ==
    Items(Prefix(ArgsortDesc(w, scores), Max(top_k, 1)), meta, scores, top_k)

\* the except branch (lines 434-437): first chunks, uniform score
Fallback(texts, meta, top_k) ==
    Items([i \in 1..Min(Len(texts), top_k) |-> i], meta,
          [i \in 1..Len(texts) |-> PLACEHOLDER], top_k)

Scores(w, embs) == [i \in 1..Len(embs) |-> ChunkSim(w, embs[i])]

(***************************************************************************)
(* Retriever.search.  g is the running record of one call: the caches, the *)
(* number of encode calls made, and what the call did (read by the         *)
(* properties only).                                                       *)
(***************************************************************************)
Blank(cc, lc, sc) ==
    [cc |-> cc, lc |-> lc, sc |-> sc, enc |-> 0, exit |-> "none", raised |-> FALSE,
     result |-> <<>>, ftLog |-> <<>>, titlePaths |-> <<>>, sugHit |-> FALSE,
     pageScores |-> <<>>, titleChunks |-> <<>>, titleScores |-> <<>>,
     pass1 |-> <<>>, pass1Scores |-> <<>>, ran2 |-> FALSE, pass2 |-> <<>>,
     raised2 |-> FALSE, lcHits |-> 0, ccHits |-> 0, trace |-> <<>>, pathChunks |-> <<>>]

Raise(g) == [g EXCEPT !.exit = "raised", !.raised = TRUE]

Wanted == Max(200, MAX_ARTICLES * 10)

\* best < SIM_THRESHOLD with the second pass enabled (line 424)
WeakEvidence(w, best) == w.second_pass /\ best < SIM_THRESHOLD

\* int(n * SECOND_PASS_FACTOR) (lines 426-427), rounding up instead
WidenUp(n) == (n * SECOND_PASS_FACTOR10 + 9) \div 10

Widen(n) == (n * SECOND_PASS_FACTOR10) \div 10

\* after the widened recall rc2: the final ranking, or the fallback on the
\* chunk lists as they are when the exception is caught (lines 428-451)
Retried(w, f, top_k, g, rc1, ww, wl, rc2) ==
    LET g2 == [g EXCEPT !.cc = rc2.cc, !.enc = rc2.enc, !.ran2 = TRUE,
                        !.pass2 = rc2.texts,
                        !.ccHits = @ + rc2.hits,
                        !.ftLog = Append(@, [wanted |-> ww, limit |-> wl])]
    IN IF rc2.raised
       THEN [g2 EXCEPT !.exit = "fallback", !.raised2 = TRUE,
                       !.result = Fallback(rc1.texts, rc1.meta, top_k)]
       ELSE IF Len(rc2.texts) = 0
       THEN [g2 EXCEPT !.exit = "empty2"]
       ELSE IF EncodeFails(f, rc2.enc + 1)
       THEN [g2 EXCEPT !.enc = @ + 1, !.exit = "fallback",
                       !.result = Fallback(rc2.texts, rc2.meta, top_k)]
       ELSE [g2 EXCEPT !.enc = @ + 1, !.exit = "ranked",
                       !.result = Ranked(w, rc2.meta, Scores(w, rc2.embs), top_k)]

\* the widened pass (lines 424-428); g holds the first pass rc1
SecondPass(w, f, top_k, g, rc1) ==
    Retried(w, f, top_k, g, rc1, Widen(Wanted), Widen(RECALL_LIMIT),
            RecallAndChunks(w, f, 2, Widen(Wanted), Widen(RECALL_LIMIT), g.cc, g.enc))

\* the first pass with the query embedded before the emptiness test
FirstPassBroken(w, f, top_k, g, rc1) ==
    LET g1 == [g EXCEPT !.cc = rc1.cc, !.enc = rc1.enc + 1, !.pass1 = rc1.texts,
                        !.ftLog = Append(@, [wanted |-> Wanted, limit |-> RECALL_LIMIT])]
    IN IF rc1.raised \/ EncodeFails(f, rc1.enc + 1) THEN Raise(g1)
       ELSE IF Len(rc1.texts) = 0 THEN [g1 EXCEPT !.exit = "empty1"]
       ELSE [g1 EXCEPT !.exit = "ranked",
                       !.result = Ranked(w, rc1.meta, Scores(w, rc1.embs), top_k)]

\* after the first recall rc1 (lines 416-451)
FirstPass(w, f, top_k, g, rc1) ==
    LET scores == Scores(w, rc1.embs)
        g1 == [g EXCEPT !.cc = rc1.cc, !.enc = rc1.enc, !.pass1 = rc1.texts,
                        !.ccHits = @ + rc1.hits,
                        !.ftLog = Append(@, [wanted |-> Wanted, limit |-> RECALL_LIMIT])]
    IN IF rc1.raised THEN Raise(g1)
       ELSE IF Len(rc1.texts) = 0 THEN [g1 EXCEPT !.exit = "empty1"]
       ELSE IF EncodeFails(f, rc1.enc + 1)
       THEN [g1 EXCEPT !.enc = @ + 1, !.exit = "fallback",
                       !.result = Fallback(rc1.texts, rc1.meta, top_k)]
       ELSE IF WeakEvidence(w, SeqMax(scores))
       THEN SecondPass(w, f, top_k, [g1 EXCEPT !.enc = @ + 1, !.pass1Scores = scores,
                                               !.trace = Append(@, "widened")], rc1)
       ELSE [g1 EXCEPT !.enc = @ + 1, !.pass1Scores = scores, !.exit = "ranked",
                       !.result = Ranked(w, rc1.meta, scores, top_k)]

\* full-text recall (lines 413-451)
FullText(w, f, top_k, g) ==
    FirstPass(w, f, top_k, [g EXCEPT !.trace = Append(@, "fulltext")],
              RecallAndChunks(w, f, 1, Wanted, RECALL_LIMIT, g.cc, g.enc))

\* best >= TITLE_SIM_EXIT (line 395)
EarlyExitBroken(best) == best > TITLE_SIM_EXIT

EarlyExit(best) == best >= TITLE_SIM_EXIT

\* after the chunk loop tc over the top pages: the early exit or the
\* full-text search (lines 391-412)
TitleChunked(w, f, top_k, g, tc) ==
    LET scores == Scores(w, tc.embs)
        g1 == [g EXCEPT !.cc = tc.cc, !.enc = tc.enc, !.titleChunks = tc.texts,
                        !.ccHits = tc.hits,
                        !.titleScores = scores]
    IN IF tc.raised THEN Raise(g1)
       ELSE IF Len(tc.texts) > 0 /\ EarlyExit(SeqMax(scores))
       THEN [g1 EXCEPT !.exit = "early", !.trace = Append(@, "early"),
                       !.result = Ranked(w, tc.meta, scores, top_k)]
       ELSE FullText(w, f, top_k, g1)

\* the paths of the best TOP_PAGES pages (line 353)
TopPages(pageScores) ==
    [i \in 1..Min(Len(pageScores), Max(1, TOP_PAGES)) |-> pageScores[i].p]

\* chunks of the top pages (lines 351-390)
TitleChunks(w, f, top_k, g) ==
    TitleChunked(w, f, top_k, g,
                 ChunkLoop(w, f, TopPages(g.pageScores), 1,
                           [cc |-> g.cc, enc |-> g.enc, texts |-> <<>>, meta |-> <<>>,
                            embs |-> <<>>, raised |-> FALSE, hits |-> 0]))

\* after the rerank loop rr (lines 351-352, and 412 when no page was scored)
Reranked(w, f, top_k, g, rr) ==
    LET g1 == [g EXCEPT !.lc = rr.lc, !.enc = rr.enc, !.lcHits = rr.hits]
    IN IF rr.raised THEN Raise(g1)
       ELSE IF Len(rr.scores) = 0 THEN FullText(w, f, top_k, g1)
       ELSE TitleChunks(w, f, top_k, [g1 EXCEPT !.pageScores = SortPages(rr.scores),
                                                !.trace = Append(@, "chunks")])

\* page rerank on the title candidates (lines 326-350)
TitleStage(w, f, top_k, g) ==
    IF EncodeFails(f, 1) THEN Raise([g EXCEPT !.enc = 1])
    ELSE Reranked(w, f, top_k, g,
                  RerankLoop(w, f, g.titlePaths, 1,
                             [lc |-> g.lc, enc |-> 1, scores |-> <<>>, raised |-> FALSE,
                              hits |-> 0]))

\* the running record at the start of a call, ts the title candidates
Start(w, cc, lc, ts) ==
    [Blank(cc, lc, ts.sc) EXCEPT !.titlePaths = Kept(w, ts.paths), !.sugHit = ts.hit,
                                 !.trace = <<"suggest">>]

\* the title stage entered whatever the candidate list
StagesAlwaysRerank(w, f, top_k, g) ==
    TitleStage(w, f, top_k, [g EXCEPT !.trace = Append(@, "rerank")])

\* title stage when there are title candidates, else full text (lines 325, 412)
Stages(w, f, top_k, g) ==
    IF Len(g.titlePaths) > 0
    THEN TitleStage(w, f, top_k, [g EXCEPT !.trace = Append(@, "rerank")])
    ELSE FullText(w, f, top_k, g)

\* Retriever.search(query, top_k) under fault f, from caches cc, lc, sc
Search(w, cc, lc, sc, q, top_k, f) ==
    Stages(w, f, top_k, Start(w, cc, lc, TitleSuggestPaths(w, sc, q)))

(***************************************************************************)
(* Retriever.search_in_path: the chunks of one page, ranked.               *)
(***************************************************************************)
\* the query is embedded and the chunks of entry e are ranked (lines 472-481);
\* enc encode calls were made before
PathRanked(w, f, top_k, g, e, enc) ==
    IF EncodeFails(f, enc + 1) THEN Raise([g EXCEPT !.enc = enc + 1])
    ELSE [g EXCEPT !.enc = enc + 1, !.exit = "ranked",
                   !.result = Ranked(w, e.meta, Scores(w, e.emb), top_k)]

\* the page encoded before the test for an empty chunk list
PathFreshEncodeFirst(w, f, top_k, g, p, e) ==
    IF EncodeFails(f, 1) THEN Raise([g EXCEPT !.enc = 1, !.pathChunks = e.texts])
    ELSE IF Len(e.texts) = 0 THEN [g EXCEPT !.exit = "nochunks"]
    ELSE PathRanked(w, f, top_k,
                    [g EXCEPT !.pathChunks = e.texts,
                              !.cc = LRUSet(@, p, CacheEntry(e.texts, e.meta, e.emb,
                                                             Len(e.texts)))],
                    e, 1)

\* the page is extracted and encoded now, then stored (lines 465-471)
PathFresh(w, f, top_k, g, p, e) ==
    IF Len(e.texts) = 0 THEN [g EXCEPT !.exit = "nochunks"]
    ELSE IF EncodeFails(f, 1) THEN Raise([g EXCEPT !.enc = 1, !.pathChunks = e.texts])
    ELSE PathRanked(w, f, top_k,
                    [g EXCEPT !.pathChunks = e.texts,
                              !.cc = LRUSet(@, p, CacheEntry(e.texts, e.meta, e.emb,
                                                             Len(e.texts)))],
                    e, 1)

\* cached is the answer of the chunk cache for the page (lines 459-468)
PathChunks(w, f, top_k, g, p, cached) ==
    IF Len(cached) = 0 THEN PathFresh(w, f, top_k, g, p, FreshEntry(p))
    ELSE IF Len(cached[1].texts) = 0
    THEN [g EXCEPT !.cc = LRUTouch(@, p), !.ccHits = 1, !.exit = "nochunks"]
    ELSE PathRanked(w, f, top_k,
                    [g EXCEPT !.cc = LRUTouch(@, p), !.ccHits = 1,
                              !.pathChunks = cached[1].texts],
                    cached[1], 0)

\* Retriever.search_in_path(path, query, top_k) under fault f
SearchInPath(w, cc, lc, sc, p, top_k, f) ==
    IF ~EntryExists(p) THEN [Blank(cc, lc, sc) EXCEPT !.exit = "absent"]
    ELSE PathChunks(w, f, top_k, Blank(cc, lc, sc), p, LRUGet(cc, p))

(***************************************************************************)
(* The worlds: the answers of the collaborators to the query.              *)
(***************************************************************************)
Queries == {<<"Rome">>}

SimVals == {10, SIM_THRESHOLD, TITLE_SIM_EXIT}

SugSet == {<<>>, <<2, 1, 1>>, <<5, 3, 4, 2>>}

RowSet == {<<>>, <<1, 3>>}

HitSet == {<<>>, <<1, 1, 2>>, <<4, 5, 2, 1>>, <<2, 1>>}

LeadSims == {[p \in 1..3 |-> IF p = 1 THEN a ELSE IF p = 2 THEN b ELSE TITLE_SIM_EXIT] :
                a \in {10, TITLE_SIM_EXIT}, b \in {10, TITLE_SIM_EXIT}}

ChunkSims == {[c \in Chunks |-> IF c = 11 THEN x ELSE IF c = 12 THEN SIM_THRESHOLD
                                ELSE IF c = 21 THEN z ELSE 10] :
                 x \in SimVals, z \in SimVals}

Worlds ==
    [embed_lru_size : EmbedLruSizes,
     second_pass : BOOLEAN,
     sug : [{<<"rome">>} -> SugSet],
     sugfail : {{}},
     trows : RowSet,
     hits : HitSet,
     lsim : LeadSims,
     csim : ChunkSims,
     argsort : {"stable", "reversed"},
     removed : {{}}]

Faults == {[enc |-> n, ft |-> 0] : n \in 0..MaxEncFail}
              \cup {[enc |-> 0, ft |-> m] : m \in 1..2}

\* the encode calls of search_in_path that can fail: the first or the second
PathFaults == {f \in Faults : f.ft = 0 /\ f.enc <= 2}

\* the pages asked of search_in_path: with chunks, without, absent
PathArgs == {1, 3, 5}

Idle == [op |-> "idle"]

LruIdle == [capArg |-> 0, op |-> "new", key |-> 0, val |-> 0, ret |-> <<>>,
            prev |-> <<>>, use |-> [k \in 1..NumKeys |-> 0], clock |-> 0]

(***************************************************************************)
(* The retriever: construction, search calls, delivery of the result.      *)
(***************************************************************************)
Init ==
    /\ world \in Worlds
    /\ chunk_cache = LRUInit(world.embed_lru_size)
    /\ lead_cache = LRUInit(world.embed_lru_size)
    /\ suggest_cache = LRUInit(SUGGEST_LRU_SIZE)
    /\ call = Idle
    /\ lru = LRUInit(0)
    /\ lruT = LruIdle

\* the call ends with record g: the caches keep what the call put in them
Returns(q, top_k, f, g) ==
    /\ chunk_cache' = g.cc
    /\ lead_cache' = g.lc
    /\ suggest_cache' = g.sc
    /\ call' = [op |-> "search", q |-> q, top_k |-> top_k, f |-> f, g |-> g]
    /\ UNCHANGED <<world, lru, lruT>>

DoSearch(q, top_k, f) ==
    /\ call.op = "idle"
    /\ Returns(q, top_k, f, Search(world, chunk_cache, lead_cache, suggest_cache, q, top_k, f))

\* the call ends with record g: the chunk cache keeps what the call put in it
PathReturns(p, q, top_k, f, g) ==
    /\ chunk_cache' = g.cc
    /\ lead_cache' = g.lc
    /\ suggest_cache' = g.sc
    /\ call' = [op |-> "search_in_path", path |-> p, q |-> q, top_k |-> top_k,
                f |-> f, g |-> g]
    /\ UNCHANGED <<world, lru, lruT>>

DoSearchInPath(p, q, top_k, f) ==
    /\ call.op = "idle"
    /\ PathReturns(p, q, top_k, f,
                   SearchInPath(world, chunk_cache, lead_cache, suggest_cache, p, top_k, f))

\* the caller (main.py) takes the items and answers the request
Deliver ==
    /\ call.op # "idle"
    /\ call' = Idle
    /\ UNCHANGED <<world, chunk_cache, lead_cache, suggest_cache, lru, lruT>>

Next ==
    \/ \E q \in Queries, top_k \in 0..MaxTopK, f \in Faults : DoSearch(q, top_k, f)
    \/ \E p \in PathArgs, q \in Queries, top_k \in 0..MaxTopK, f \in PathFaults :
          DoSearchInPath(p, q, top_k, f)
    \/ Deliver

Spec == Init /\ [][Next]_vars

(***************************************************************************)
(* The _LRU class alone: any capacity argument, any sequence of get/set.   *)
(* lruT.use[k] is the time of the last use of key k (0: never).            *)
(***************************************************************************)
InitLRU ==
    /\ \E cap \in (0 - 1)..MaxCap :
          /\ lru = LRUInit(cap)
          /\ lruT = [LruIdle EXCEPT !.capArg = cap]
    /\ world = CHOOSE w \in Worlds : TRUE
    /\ chunk_cache = LRUInit(world.embed_lru_size)
    /\ lead_cache = LRUInit(world.embed_lru_size)
    /\ suggest_cache = LRUInit(SUGGEST_LRU_SIZE)
    /\ call = Idle

LruGetOp(key) ==
    /\ lruT.clock < MaxLruOps
    /\ lru' = LRUTouch(lru, key)
    /\ lruT' = [lruT EXCEPT !.op = "get", !.key = key, !.val = 0,
                            !.ret = LRUGet(lru, key), !.prev = lru.d,
                            !.clock = @ + 1,
                            !.use = IF Len(LRUGet(lru, key)) > 0
                                    THEN [@ EXCEPT ![key] = lruT.clock + 1] ELSE @]
    /\ UNCHANGED <<world, chunk_cache, lead_cache, suggest_cache, call>>

LruSetOp(key, val) ==
    /\ lruT.clock < MaxLruOps
    /\ lru' = LRUSet(lru, key, val)
    /\ lruT' = [lruT EXCEPT !.op = "set", !.key = key, !.val = val, !.ret = <<>>,
                            !.prev = lru.d, !.clock = @ + 1,
                            !.use = [@ EXCEPT ![key] = lruT.clock + 1]]
    /\ UNCHANGED <<world, chunk_cache, lead_cache, suggest_cache, call>>

NextLRU ==
    \/ \E key \in 1..NumKeys : LruGetOp(key)
    \/ \E key \in 1..NumKeys, val \in 1..NumVals : LruSetOp(key, val)

SpecLRU == InitLRU /\ [][NextLRU]_vars

(***************************************************************************)
(* Chunking alone: _chunks and _extract_chunks on sections of any length,  *)
(* under any window size, overlap (0 <= overlap < size) and chunk cap.     *)
(***************************************************************************)
Windowings == {x \in (1..MaxSize) \X (0..(MaxSize - 1)) : x[2] < x[1]}

\* <<words, <<size, overlap>>>>: short sections under small windows, long
\* ones under the default configuration
ChunkInputs ==
    ((0..MaxWords) \X Windowings)
       \cup ({0, 160, 161, 320, 321, 500} \X {<<CHUNK_TOKENS, CHUNK_OVERLAP>>})

SectionLists == UNION {[1..n -> 0..MaxWords] : n \in 0..MaxSections}

\* <<sections, <<size, overlap>>>>
ExtractInputs ==
    (SectionLists \X Windowings)
       \cup ({<<500>>, <<500, 2>>, <<320>>, <<321, 0, 7>>}
               \X {<<CHUNK_TOKENS, CHUNK_OVERLAP>>})

InitChunks ==
    /\ call = Idle
    /\ world = CHOOSE w \in Worlds : TRUE
    /\ chunk_cache = LRUInit(world.embed_lru_size)
    /\ lead_cache = LRUInit(world.embed_lru_size)
    /\ suggest_cache = LRUInit(SUGGEST_LRU_SIZE)
    /\ lru = LRUInit(0)
    /\ lruT = LruIdle

DoChunks(n, wd) ==
    /\ call.op = "idle"
    /\ call' = [op |-> "chunks", n |-> n, size |-> wd[1], overlap |-> wd[2],
                out |-> ChunksOf(n, wd[1], wd[2])]
    /\ UNCHANGED <<world, chunk_cache, lead_cache, suggest_cache, lru, lruT>>

DoExtract(secs, wd, cap) ==
    /\ call.op = "idle"
    /\ call' = [op |-> "extract", secs |-> secs, size |-> wd[1], overlap |-> wd[2],
                cap |-> cap, out |-> ExtractSections(secs, wd[1], wd[2], cap)]
    /\ UNCHANGED <<world, chunk_cache, lead_cache, suggest_cache, lru, lruT>>

\* the inputs a call can start with: none while a call is pending
WhenIdle(inputs) == IF call.op = "idle" THEN inputs ELSE {}

NextChunks ==
    \/ \E x \in WhenIdle(ChunkInputs) : DoChunks(x[1], x[2])
    \/ \E x \in WhenIdle(ExtractInputs), cap \in 0..MaxChunkCap :
          DoExtract(x[1], x[2], cap)
    \/ Deliver

SpecChunks == InitChunks /\ [][NextChunks]_vars

(***************************************************************************)
(* The loop of _chunks, one iteration at a time, under any window size     *)
(* and any overlap, the overlaps of at least the window size included.     *)
(* The running generator is [n, size, overlap, start, out, done].  A loop  *)
(* that does not end yields windows for ever: no more than n + 1 of them   *)
(* are followed here, n being more than a loop that ends can yield.        *)
(***************************************************************************)
LoopWindowings == (1..MaxSize) \X (0..MaxSize) \cup {<<CHUNK_TOKENS, CHUNK_OVERLAP>>}

LoopInputs == ((0..MaxWords) \X LoopWindowings)
                 \cup ({500} \X {<<CHUNK_TOKENS, CHUNK_OVERLAP>>})

\* the start of the next window set back to the start of this one
NextStartSame(c, end) == c.start

\* start = max(0, end - overlap) (line 64)
NextStart(c, end) == Max(0, end - c.overlap)

\* _chunks is called: lines 55-58
BeginChunks(n, wd) ==
    /\ call.op = "idle"
    /\ call' = [op |-> "chunking", n |-> n, size |-> wd[1], overlap |-> wd[2],
                start |-> 0, out |-> <<>>, done |-> n = 0]
    /\ UNCHANGED <<world, chunk_cache, lead_cache, suggest_cache, lru, lruT>>

\* one iteration of the while loop: lines 59-64
Iterate ==
    /\ call.op = "chunking"
    /\ ~call.done
    /\ Len(call.out) <= call.n
    /\ LET end == Min(call.n, call.start + call.size)
       IN call' = [call EXCEPT !.out = Append(@, <<call.start, end>>),
                               !.start = IF end = call.n THEN @ ELSE NextStart(call, end),
                               !.done = (end = call.n)
                                           \/ ~(NextStart(call, end) < call.n)]
    /\ UNCHANGED <<world, chunk_cache, lead_cache, suggest_cache, lru, lruT>>

\* the generator is exhausted
ReturnChunks ==
    /\ call.op = "chunking"
    /\ call.done
    /\ call' = Idle
    /\ UNCHANGED <<world, chunk_cache, lead_cache, suggest_cache, lru, lruT>>

NextLoop ==
    \/ \E x \in WhenIdle(LoopInputs) : BeginChunks(x[1], x[2])
    \/ Iterate
    \/ ReturnChunks

\* the loop runs on: an iteration that can be made is made
SpecLoop == InitChunks /\ [][NextLoop]_vars /\ WF_vars(Iterate)

(***************************************************************************)
(* The suggestion loop alone: queries of one to three tokens, any answer   *)
(* of the suggestion engine to each candidate phrase, any failing calls.   *)
(***************************************************************************)
SuggestQueries == {<<"Rome">>, <<"Rome", "italy">>, <<"what", "italy", "Rome", "italy">>}

Phrases == UNION {Range(Cands(q)) : q \in SuggestQueries}

SuggestAnswers == {<<>>, <<1>>, <<3>>, <<2, 1, 1>>, <<5, 3, 4, 2>>}

SuggestWorlds == [sug : [Phrases -> SuggestAnswers], sugfail : SUBSET Phrases]

DoSuggest(q, w) ==
    /\ call.op = "idle"
    /\ call' = [op |-> "suggest", q |-> q, w |-> w, st |-> Suggested(w, q)]
    /\ UNCHANGED <<world, chunk_cache, lead_cache, suggest_cache, lru, lruT>>

NextSuggest ==
    \/ \E q \in SuggestQueries, w \in WhenIdle(SuggestWorlds) : DoSuggest(q, w)
    \/ Deliver

SpecSuggest == InitChunks /\ [][NextSuggest]_vars

(***************************************************************************)
(* _title_suggest_paths alone, on one Retriever: raw queries with          *)
(* whitespace and capitals, the suggestion cache kept between the calls,   *)
(* a title index of up to MaxRows rows.                                    *)
(***************************************************************************)
TitleQueries == {<<"Rome">>, <<Space, "ROME", Space>>, <<"Rome", Space, "italy">>}

TitlePhrases == UNION {Range(Cands(q)) : q \in TitleQueries}

TitleAnswers == {<<>>, <<2, 1, 1>>, <<5, 3, 4, 2>>}

\* the rows of the title index: none, two, a repeated path, MaxRows new paths
TitleRows == {<<>>, <<1, 3>>, <<3, 1, 3>>, [i \in 1..MaxRows |-> 5 + i]}

TitleWorlds ==
    [sug : [TitlePhrases -> TitleAnswers],
     sugfail : {{}, {<<"rome">>}},
     trows : TitleRows]

InitTitles ==
    /\ call = Idle
    /\ world \in TitleWorlds
    /\ chunk_cache = LRUInit(0)
    /\ lead_cache = LRUInit(0)
    /\ suggest_cache = LRUInit(SUGGEST_LRU_SIZE)
    /\ lru = LRUInit(0)
    /\ lruT = LruIdle

\* one call of _title_suggest_paths(q); before: the suggestion cache it found
DoTitles(q) ==
    /\ call.op = "idle"
    /\ call' = [op |-> "titles", q |-> q, before |-> suggest_cache,
                r |-> TitleSuggestPaths(world, suggest_cache, q)]
    /\ suggest_cache' = TitleSuggestPaths(world, suggest_cache, q).sc
    /\ UNCHANGED <<world, chunk_cache, lead_cache, lru, lruT>>

NextTitles ==
    \/ \E q \in TitleQueries : DoTitles(q)
    \/ Deliver

SpecTitles == InitTitles /\ [][NextTitles]_vars

(***************************************************************************)
(* The recall of the first full-text pass alone (lines 413-415, 199-213):  *)
(* any hit list of up to MaxHits paths, a search that works or raises, a   *)
(* configured RECALL_LIMIT of 0..MaxRecall.                                *)
(***************************************************************************)
HitLists == UNION {[1..n -> 1..3] : n \in 0..MaxHits}

DoRecall(hits, ft, recall_limit) ==
    /\ call.op = "idle"
    /\ call' = [op |-> "recall", hits |-> hits, ft |-> ft, wanted |-> Wanted,
                limit |-> recall_limit,
                out |-> RecallPaths([hits |-> hits, removed |-> {}], [ft |-> ft], 1,
                                    Wanted, recall_limit)]
    /\ UNCHANGED <<world, chunk_cache, lead_cache, suggest_cache, lru, lruT>>

NextRecall ==
    \/ \E hits \in WhenIdle(HitLists), ft \in 0..1, recall_limit \in 0..MaxRecall :
          DoRecall(hits, ft, recall_limit)
    \/ Deliver

SpecRecall == InitChunks /\ [][NextRecall]_vars

(***************************************************************************)
(* A chunk accumulation loop alone (lines 360-390 and 215-247): any list   *)
(* of up to MaxPaths pages, the chunk cache disabled, empty or holding a   *)
(* page, the encoder working or raising on the first page it is given.     *)
(***************************************************************************)
PathLists == UNION {[1..n -> Paths] : n \in 0..MaxPaths}

\* the chunk cache a loop can find: what earlier loops have stored
FoundCaches ==
    {LRUInit(0), LRUInit(2)}
       \cup {LRUSet(LRUInit(2), p, CacheEntry(FreshEntry(p).texts, FreshEntry(p).meta,
                                              FreshEntry(p).emb, 1)) : p \in {1, 4}}

DoAccumulate(paths, cc, enc) ==
    /\ call.op = "idle"
    /\ call' = [op |-> "accumulate", paths |-> paths, cc |-> cc,
                st |-> ChunkLoop(world, [enc |-> enc, ft |-> 0], paths, 1,
                                 [cc |-> cc, enc |-> 0, texts |-> <<>>, meta |-> <<>>,
                                  embs |-> <<>>, raised |-> FALSE, hits |-> 0])]
    /\ UNCHANGED <<world, chunk_cache, lead_cache, suggest_cache, lru, lruT>>

NextAccumulate ==
    \/ \E paths \in WhenIdle(PathLists), cc \in FoundCaches, enc \in 0..1 :
          DoAccumulate(paths, cc, enc)
    \/ Deliver

SpecAccumulate == InitChunks /\ [][NextAccumulate]_vars

(***************************************************************************)
(* Two calls at once on one Retriever.  Each call runs a chunk             *)
(* accumulation loop over its pages (one page: search_in_path) and ranks   *)
(* what it gathered; a step of a call is one cache operation, get or set,  *)
(* with the work the call does on its own up to its next cache operation.  *)
(* A call pr = [paths, top_k, i, pc, texts, meta, embs, result]: i the     *)
(* place of the page in hand, pc its next step.                            *)
(***************************************************************************)
\* the pages of the two calls: those with chunks, the ones the cache holds
CallPathLists == UNION {[1..n -> {1, 2, 4}] : n \in 1..MaxCallPaths}

NewCall(paths, top_k) ==
    [paths |-> paths, top_k |-> top_k, i |-> 1, pc |-> "get", texts |-> <<>>,
     meta |-> <<>>, embs |-> <<>>, result |-> <<>>]

\* the call with the first take chunks of entry e added (lines 236-243)
Gathered(pr, e, take) ==
    [pr EXCEPT !.texts = @ \o SubSeq(e.texts, 1, take),
               !.meta = @ \o SubSeq(e.meta, 1, take),
               !.embs = @ \o SubSeq(e.emb, 1, take)]

Budget(pr, e) == Min(Len(e.texts), MAX_CHUNKS - Len(pr.texts))

\* the loop is over: no page left, or MAX_CHUNKS chunks gathered
LoopOver(pr) == pr.i > Len(pr.paths) \/ Len(pr.texts) >= MAX_CHUNKS

\* _chunk_cache.get(p) answered cached (lines 222-235): a hit is gathered,
\* an absent or chunkless page is skipped, a fresh page is gathered and is
\* to be stored
AfterGet(pr, p, cached) ==
    IF Len(cached) > 0
    THEN [Gathered(pr, cached[1], Budget(pr, cached[1])) EXCEPT !.i = @ + 1]
    ELSE IF ~EntryExists(p) \/ ExtractChunks(p) = <<>> THEN [pr EXCEPT !.i = @ + 1]
    ELSE [Gathered(pr, FreshEntry(p), Budget(pr, FreshEntry(p))) EXCEPT !.pc = "set"]

\* the entry stored holds what was taken of the page only
StoredTaken(pr, p) ==
    LET take == Min(Len(FreshEntry(p).texts),
                    Len(SelectSeq(pr.texts, LAMBDA c : PageOf(c) = p)))
    IN CacheEntry(SubSeq(FreshEntry(p).texts, 1, take),
                  SubSeq(FreshEntry(p).meta, 1, take),
                  SubSeq(FreshEntry(p).emb, 1, take), take)

\* the entry a call stores for the fresh page p (line 247)
Stored(pr, p) ==
    CacheEntry(FreshEntry(p).texts, FreshEntry(p).meta, FreshEntry(p).emb,
               Len(FreshEntry(p).texts))

InitConcurrent ==
    /\ call = Idle
    /\ world \in {w \in Worlds : /\ w.second_pass /\ w.argsort = "stable"
                                  /\ w.sug[<<"rome">>] = <<>> /\ w.trows = <<>>
                                  /\ w.hits = <<>>
                                  /\ \A p \in 1..3 : w.lsim[p] = TITLE_SIM_EXIT
                                  /\ w.csim[11] = SIM_THRESHOLD /\ w.csim[21] = 10}
    /\ chunk_cache = LRUInit(world.embed_lru_size)
    /\ lead_cache = LRUInit(world.embed_lru_size)
    /\ suggest_cache = LRUInit(SUGGEST_LRU_SIZE)
    /\ lru = LRUInit(0)
    /\ lruT = LruIdle

\* two requests arrive, one for a single item, one for MaxTopK items;
\* found: the chunk cache they find
StartPair(paths1, paths2) ==
    /\ call.op = "idle"
    /\ call' = [op |-> "concurrent", found |-> chunk_cache,
                procs |-> <<NewCall(paths1, 1), NewCall(paths2, MaxTopK)>>]
    /\ UNCHANGED <<world, chunk_cache, lead_cache, suggest_cache, lru, lruT>>

\* call k does its cache get, atomically
CacheGet(k) ==
    /\ call.op = "concurrent"
    /\ call.procs[k].pc = "get"
    /\ ~LoopOver(call.procs[k])
    /\ LET pr == call.procs[k]
           p == pr.paths[pr.i]
       IN /\ call' = [call EXCEPT !.procs[k] = AfterGet(pr, p, LRUGet(chunk_cache, p))]
          /\ chunk_cache' = LRUTouch(chunk_cache, p)
    /\ UNCHANGED <<world, lead_cache, suggest_cache, lru, lruT>>

\* call k does its cache set, atomically
CacheSet(k) ==
    /\ call.op = "concurrent"
    /\ call.procs[k].pc = "set"
    /\ LET pr == call.procs[k]
           p == pr.paths[pr.i]
       IN /\ call' = [call EXCEPT !.procs[k] = [pr EXCEPT !.pc = "get", !.i = @ + 1]]
          /\ chunk_cache' = LRUSet(chunk_cache, p, Stored(pr, p))
    /\ UNCHANGED <<world, lead_cache, suggest_cache, lru, lruT>>

\* call k ranks what it gathered and returns (lines 392-400, 416-450, 472-481)
Finish(k) ==
    /\ call.op = "concurrent"
    /\ call.procs[k].pc = "get"
    /\ LoopOver(call.procs[k])
    /\ LET pr == call.procs[k]
       IN call' = [call EXCEPT !.procs[k] =
                      [pr EXCEPT !.pc = "done",
                                 !.result = IF pr.texts = <<>> THEN <<>>
                                            ELSE Ranked(world, pr.meta,
                                                        Scores(world, pr.embs), pr.top_k)]]
    /\ UNCHANGED <<world, chunk_cache, lead_cache, suggest_cache, lru, lruT>>

\* both results are delivered
DeliverPair ==
    /\ call.op = "concurrent"
    /\ \A k \in 1..2 : call.procs[k].pc = "done"
    /\ call' = Idle
    /\ UNCHANGED <<world, chunk_cache, lead_cache, suggest_cache, lru, lruT>>

NextConcurrent ==
    \/ \E paths1 \in WhenIdle(CallPathLists), paths2 \in CallPathLists :
          StartPair(paths1, paths2)
    \/ \E k \in 1..2 : CacheGet(k)
    \/ \E k \in 1..2 : CacheSet(k)
    \/ \E k \in 1..2 : Finish(k)
    \/ DeliverPair

SpecConcurrent == InitConcurrent /\ [][NextConcurrent]_vars

(***************************************************************************)
(* stream_chat_completion (main.py).  The upstream answers with a status   *)
(* and then sends lines; a line is one of                                  *)
(*   "empty"      an empty line                                            *)
(*   "other"      a line that does not start with "data:"                  *)
(*   "done"       data: [DONE]                                             *)
(*   "content"    a JSON object whose delta has content                    *)
(*   "reasoning"  a JSON object whose delta has reasoning and no content   *)
(*   "both"       a JSON object whose delta has reasoning and content      *)
(*   "error"      a JSON object with an error and no delta content         *)
(*   "badjson"    data that is not JSON                                    *)
(*   "notdict"    JSON that is not an object: obj.get raises               *)
(* The answer to the fallback request is one of "content" (status 200 with *)
(* content), "empty" (status 200 without), "status" (another status),      *)
(* "raise" (the request or its decoding raises).  A stream is the record   *)
(* [pc, debug, yielded, events, lines, fallbacks, fbBefore, fbAnswer]:     *)
(* events the events yielded, lines the lines read, fbBefore the events    *)
(* yielded when the fallback request was issued.                           *)
(***************************************************************************)
LineKinds == {"empty", "other", "done", "content", "reasoning", "both", "error",
              "badjson", "notdict"}

FallbackAnswers == {"content", "empty", "status", "raise"}

\* the stream after the status line (lines 129-134)
Opened(status, debug) ==
    [pc |-> IF status # 200 THEN "raised" ELSE "reading", debug |-> debug,
     yielded |-> FALSE, events |-> <<>>, lines |-> <<>>, fallbacks |-> 0,
     fbBefore |-> <<>>, fbAnswer |-> "none"]

\* [DONE] with a fallback request whose failure is not caught
OnDoneUncaught(st, fb) ==
    IF st.yielded THEN [st EXCEPT !.events = Append(@, "done"), !.pc = "closed"]
    ELSE IF fb = "raise"
    THEN [st EXCEPT !.fallbacks = @ + 1, !.fbBefore = st.events, !.fbAnswer = fb,
                    !.pc = "raised"]
    ELSE [st EXCEPT !.fallbacks = @ + 1, !.fbBefore = st.events, !.fbAnswer = fb,
                    !.events = (IF fb = "content" THEN Append(@, "token") ELSE @)
                                  \o <<"done">>,
                    !.pc = "closed"]

\* data: [DONE] (lines 141-162); fb answers the fallback request if issued
OnDone(st, fb) ==
    IF st.yielded THEN [st EXCEPT !.events = Append(@, "done"), !.pc = "closed"]
    ELSE [st EXCEPT !.fallbacks = @ + 1, !.fbBefore = st.events, !.fbAnswer = fb,
                    !.events = (IF fb = "content" THEN Append(@, "token") ELSE @)
                                  \o <<"done">>,
                    !.pc = "closed"]

\* a data line that is not [DONE] (lines 163-175)
OnData(st, kind) ==
    IF kind = "badjson" THEN [st EXCEPT !.events = Append(@, "raw")]
    ELSE IF kind = "notdict" THEN [st EXCEPT !.pc = "raised"]
    ELSE [st EXCEPT !.events = @ \o (IF st.debug /\ kind \in {"reasoning", "both"}
                                      THEN <<"reasoning">> ELSE <<>>)
                                   \o (IF kind \in {"content", "both"}
                                      THEN <<"token">> ELSE <<>>),
                    !.yielded = @ \/ kind \in {"content", "both"}]

\* one line of the upstream (the body of the loop at line 137)
OnLine(st, kind, fb) ==
    IF kind \in {"empty", "other"} THEN [st EXCEPT !.lines = Append(@, kind)]
    ELSE IF kind = "done" THEN OnDone([st EXCEPT !.lines = Append(@, kind)], fb)
    ELSE OnData([st EXCEPT !.lines = Append(@, kind)], kind)

OpenStream(status, debug) ==
    /\ call.op = "idle"
    /\ call' = [op |-> "stream", st |-> Opened(status, debug)]
    /\ UNCHANGED <<world, chunk_cache, lead_cache, suggest_cache, lru, lruT>>

ReadLine(kind, fb) ==
    /\ call.op = "stream"
    /\ call.st.pc = "reading"
    /\ Len(call.st.lines) < MaxLines
    /\ call' = [call EXCEPT !.st = OnLine(call.st, kind, fb)]
    /\ UNCHANGED <<world, chunk_cache, lead_cache, suggest_cache, lru, lruT>>

\* the upstream closes the stream without [DONE]
EndOfLines ==
    /\ call.op = "stream"
    /\ call.st.pc = "reading"
    /\ call' = [call EXCEPT !.st.pc = "closed"]
    /\ UNCHANGED <<world, chunk_cache, lead_cache, suggest_cache, lru, lruT>>

\* the stream is over and the next chat request can come
CloseStream ==
    /\ call.op = "stream"
    /\ call.st.pc \in {"closed", "raised"}
    /\ call' = Idle
    /\ UNCHANGED <<world, chunk_cache, lead_cache, suggest_cache, lru, lruT>>

NextStream ==
    \/ \E status \in {200, 500}, debug \in BOOLEAN : OpenStream(status, debug)
    \/ \E kind \in LineKinds, fb \in FallbackAnswers : ReadLine(kind, fb)
    \/ EndOfLines
    \/ CloseStream

SpecStream == InitChunks /\ [][NextStream]_vars

KeysOf(d) == {d[i].k : i \in 1..Len(d)}

ValueOf(d, key) == d[IndexOf(d, key)].v

\* C9: a cache built with capacity cap never holds more than max(0, cap)
\* entries; built with cap <= 0 it stores nothing and every get returns None.
C9_CapacityInvariant ==
    /\ Len(lru.d) <= Max(0, lruT.capArg)
    /\ lruT.capArg <= 0 =>
          /\ lru.d = <<>>
          /\ lruT.op = "get" => lruT.ret = <<>>

\* a set of a new key into a full cache of capacity 2 has just evicted
C9_Witness ==
    /\ lruT.capArg = 2
    /\ lruT.op = "set"
    /\ Len(lruT.prev) = 2
    /\ lruT.key \notin KeysOf(lruT.prev)
    /\ Len(lru.d) = 2

\* C10: an entry leaves only on a set of a new key into a full cache, and
\* the one removed is the least recently used (a use is a hit of get or a
\* set); a set of a present key replaces the value, keeps the size and
\* refreshes the key; a get that misses changes nothing.
C10_EvictionOrder ==
    LET prevKeys == KeysOf(lruT.prev)
        curKeys == KeysOf(lru.d)
        removed == prevKeys \ curKeys
    IN /\ removed # {} =>
             /\ lruT.op = "set"
             /\ lruT.key \notin prevKeys
             /\ Len(lruT.prev) = lru.cap
             /\ Cardinality(removed) = 1
             /\ \A r \in removed, k \in curKeys : lruT.use[r] < lruT.use[k]
       /\ lruT.op = "set" /\ lruT.key \in prevKeys =>
             /\ curKeys = prevKeys
             /\ Len(lru.d) = Len(lruT.prev)
             /\ ValueOf(lru.d, lruT.key) = lruT.val
             /\ \A k \in prevKeys \ {lruT.key} : ValueOf(lru.d, k) = ValueOf(lruT.prev, k)
       /\ lruT.op = "set" /\ lru.cap > 0 => lruT.key \in curKeys
       /\ lruT.op = "get" /\ lruT.ret = <<>> => lru.d = lruT.prev
       /\ lruT.op = "get" /\ lruT.ret # <<>> =>
             /\ curKeys = prevKeys
             /\ lruT.ret = <<ValueOf(lruT.prev, lruT.key)>>

\* after four operations or more, a set of a new key into a full cache
\* evicted the oldest entry and kept the more recently used one
C10_Witness ==
    /\ lruT.op = "set"
    /\ Len(lruT.prev) = 2
    /\ lru.cap = 2
    /\ lruT.key \notin KeysOf(lruT.prev)
    /\ \E r \in KeysOf(lruT.prev) \ KeysOf(lru.d) :
          /\ r = lruT.prev[1].k
          /\ \E k \in KeysOf(lru.d) \ {lruT.key} : lruT.use[k] > lruT.use[r]
    /\ lruT.clock >= 4

(***************************************************************************)
(* Properties of Retriever.search (specification Spec).                    *)
(***************************************************************************)
Returned == call.op = "search" /\ ~call.g.raised

NoFault == [enc |-> 0, ft |-> 0]

\* the failing encode call of the fault was reached during the call
EncoderFailed == call.op = "search" /\ call.f.enc # 0 /\ call.g.enc >= call.f.enc

Snippets(items) == {items[i].snippet : i \in 1..Len(items)}

\* items are the n best chunks of texts, each with its own similarity
TopOf(items, texts, n) ==
    /\ Len(items) = Min(n, Len(texts))
    /\ \A i \in 1..Len(items) :
          /\ items[i].snippet \in Range(texts)
          /\ items[i].url = PageOf(items[i].snippet)
          /\ items[i].score = ChunkSim(world, items[i].snippet)
    /\ \A i, j \in 1..Len(items) : i # j => items[i].snippet # items[j].snippet
    /\ \A c \in Range(texts) \ Snippets(items) :
          \A i \in 1..Len(items) : ChunkSim(world, c) <= items[i].score

\* C1: search returns at most top_k items, each scored by a cosine in
\* [-1, 1] (the similarity of its chunk) or by the fallback placeholder.
C1_AtMostTopK ==
    Returned =>
       /\ Len(call.g.result) <= call.top_k
       /\ \A i \in 1..Len(call.g.result) :
             \/ /\ call.g.result[i].score = ChunkSim(world, call.g.result[i].snippet)
                /\ call.g.result[i].score \in (0 - 100)..100
             \/ /\ call.g.exit = "fallback"
                /\ call.g.result[i].score = PLACEHOLDER

\* a ranked call with top_k = 0 over a non-empty chunk set returned nothing
C1_Witness ==
    /\ Returned
    /\ call.top_k = 0
    /\ call.g.exit = "ranked"
    /\ Len(call.g.pass1) > 0
    /\ call.g.result = <<>>

\* C2: with a healthy encoder and search engine, the items search returns
\* are those of the same call on empty caches, whatever the caches hold.
C2_Idempotent ==
    call.op = "search" /\ call.f = NoFault =>
       LET cold == Search(world, LRUInit(world.embed_lru_size),
                          LRUInit(world.embed_lru_size),
                          LRUInit(SUGGEST_LRU_SIZE), call.q, call.top_k, NoFault)
       IN /\ call.g.result = cold.result
          /\ call.g.raised = cold.raised
          /\ call.g.exit = cold.exit

\* a call served from the suggestion, lead and chunk caches returned items
C2_Witness ==
    /\ call.op = "search"
    /\ call.f = NoFault
    /\ call.g.sugHit
    /\ call.g.lcHits > 0
    /\ call.g.ccHits > 0
    /\ Len(call.g.result) > 1

\* C3: when the best similarity of the title-stage chunks reaches
\* TITLE_SIM_EXIT, search returns the top_k best of those chunks and the
\* full-text search is not invoked.
C3_EarlyExitOnChunks ==
    Returned /\ Len(call.g.titleChunks) > 0
             /\ SeqMax(call.g.titleScores) >= TITLE_SIM_EXIT =>
       /\ call.g.ftLog = <<>>
       /\ TopOf(call.g.result, call.g.titleChunks, call.top_k)
       /\ \A i \in 1..(Len(call.g.result) - 1) :
             call.g.result[i].score >= call.g.result[i + 1].score

\* the best title chunk is exactly at the threshold and top_k cuts the list
C3_Witness ==
    /\ Returned
    /\ SeqMax(call.g.titleScores \o <<0>>) = TITLE_SIM_EXIT
    /\ Len(call.g.titleChunks) > call.top_k
    /\ call.top_k >= 1
    /\ call.g.exit = "early"

\* the original statement of C4: a best page-rerank score at or above
\* TITLE_SIM_EXIT alone keeps the full-text search from being invoked
C4_PageScoreExit ==
    call.op = "search" /\ Len(call.g.pageScores) > 0
                       /\ call.g.pageScores[1].s >= TITLE_SIM_EXIT =>
       call.g.ftLog = <<>>

\* C4 (amended): when the best page-rerank score is at or above
\* TITLE_SIM_EXIT and the best similarity of the chunks extracted from the
\* top pages is too, the full-text search is never invoked.
C4_ExitNeedsChunkScore ==
    call.op = "search" /\ Len(call.g.pageScores) > 0
                       /\ call.g.pageScores[1].s >= TITLE_SIM_EXIT
                       /\ Len(call.g.titleChunks) > 0
                       /\ SeqMax(call.g.titleScores) >= TITLE_SIM_EXIT =>
       call.g.ftLog = <<>>

\* best page score and best chunk score both at the threshold: early exit
C4_Witness ==
    /\ Returned
    /\ Len(call.g.pageScores) > 0
    /\ call.g.pageScores[1].s = TITLE_SIM_EXIT
    /\ SeqMax(call.g.titleScores \o <<0>>) = TITLE_SIM_EXIT
    /\ call.g.exit = "early"
    /\ Len(call.g.result) > 0

\* the first pass was ranked and its best similarity is below SIM_THRESHOLD
WeakFirstPass ==
    /\ Returned
    /\ world.second_pass
    /\ Len(call.g.pass1Scores) > 0
    /\ SeqMax(call.g.pass1Scores) < SIM_THRESHOLD

\* the retry ran with the first pass's wanted and limit times the factor,
\* truncated
Widened ==
    /\ call.g.ran2
    /\ Len(call.g.ftLog) = 2
    /\ call.g.ftLog[1] = [wanted |-> Max(200, MAX_ARTICLES * 10), limit |-> RECALL_LIMIT]
    /\ \A fld \in {"wanted", "limit"} :
          /\ call.g.ftLog[2][fld] * 10 <= call.g.ftLog[1][fld] * SECOND_PASS_FACTOR10
          /\ (call.g.ftLog[2][fld] + 1) * 10 > call.g.ftLog[1][fld] * SECOND_PASS_FACTOR10

\* the original statement of C5: after a weak first pass the retry runs
\* widened and every returned item is a chunk of the retry
C5_RetryReplaces ==
    WeakFirstPass => Widened /\ Snippets(call.g.result) \subseteq Range(call.g.pass2)

\* C5 (amended): after a weak first pass the retry runs with wanted and
\* recall limit multiplied by the factor (truncated), and the returned items
\* are chunks of the retry only, except when the encoder raises while the
\* retry embeds its chunks: then the first min(k, n) chunks of the first
\* pass are returned with the placeholder score.
C5_RetryReplacesUnlessRaised ==
    WeakFirstPass =>
       /\ Widened
       /\ IF call.g.raised2
          THEN /\ Len(call.g.result) = Min(call.top_k, Len(call.g.pass1))
               /\ \A i \in 1..Len(call.g.result) :
                     /\ call.g.result[i].snippet = call.g.pass1[i]
                     /\ call.g.result[i].score = PLACEHOLDER
          ELSE Snippets(call.g.result) \subseteq Range(call.g.pass2)

\* the retry recalled more chunks than the weak first pass and was ranked
C5_Witness ==
    /\ WeakFirstPass
    /\ call.g.exit = "ranked"
    /\ Len(call.g.pass2) > Len(call.g.pass1)
    /\ Len(call.g.result) > 0
    /\ call.g.ftLog[2].limit = 3

\* C6: with top_k >= 1, when the title stage or a full-text pass extracted
\* a chunk, the returned list is not empty.
C6_EmptyOnlyWhenNothing ==
    Returned /\ call.top_k >= 1
             /\ Len(call.g.titleChunks) + Len(call.g.pass1) + Len(call.g.pass2) > 0 =>
       Len(call.g.result) > 0

\* C7: when an encode call fails while a chunk has been extracted, search
\* does not raise and returns the first min(k, n) chunks in extraction
\* order, all with the placeholder score.
C7_FallbackOnEncoderFailure ==
    EncoderFailed /\ Len(call.g.titleChunks) + Len(call.g.pass1) > 0 =>
       /\ ~call.g.raised
       /\ call.g.exit = "fallback"
       /\ \A i \in 1..Len(call.g.result) : call.g.result[i].score = PLACEHOLDER

\* C8: when neither the suggestion engine nor the title index gives a path
\* and the full-text search gives none, search returns [] and does not raise.
C8_NothingFound ==
    call.op = "search" /\ Len(call.g.titlePaths) = 0
                       /\ (Len(world.hits) = 0 \/ call.f.ft = 1) =>
       /\ ~call.g.raised
       /\ call.g.result = <<>>

\* nothing suggested, nothing recalled, the encoder down: an empty result
C8_Witness ==
    /\ Returned
    /\ Len(call.g.titlePaths) = 0
    /\ Len(world.hits) = 0
    /\ call.f.enc = 1
    /\ call.top_k >= 1
    /\ call.g.result = <<>>
    /\ Len(call.g.ftLog) = 1

(***************************************************************************)
(* Properties of _chunks and _extract_chunks (specification SpecChunks).   *)
(***************************************************************************)
\* the chunks of one section when no cap applies
SectionChunks(secs, size_tokens, overlap, i) ==
    IF secs[i] = 0 THEN <<>>
    ELSE IF secs[i] > size_tokens * 2
    THEN LET ws == ChunksOf(secs[i], size_tokens, overlap)
         IN [j \in 1..Len(ws) |-> [sec |-> i, s |-> ws[j][1], t |-> ws[j][2]]]
    ELSE <<[sec |-> i, s |-> 0, t |-> secs[i]]>>

\* the uncapped chunk sequence: sections in document order, windows in order
RECURSIVE Uncapped(_, _, _, _)
Uncapped(secs, size_tokens, overlap, i) ==
    IF i > Len(secs) THEN <<>>
    ELSE SectionChunks(secs, size_tokens, overlap, i)
            \o Uncapped(secs, size_tokens, overlap, i + 1)

\* C11: for every page and every configured maximum chunk count,
\* _extract_chunks returns at most that many chunks, and they are a prefix
\* of the uncapped chunk sequence.
C11_ExtractionCap ==
    call.op = "extract" =>
       /\ Len(call.out) <= call.cap
       /\ call.out = Prefix(Uncapped(call.secs, call.size, call.overlap, 1), Len(call.out))

\* C12: for n words, window size S and overlap O with 0 <= O < S, the
\* windows of _chunks cover every word, every window but the last has S
\* words, each window starts S - O words after the previous one, and
\* consecutive windows share exactly O words, the final window excepted.
C12_SlidingWindows ==
    call.op = "chunks" =>
       LET ws == call.out
       IN /\ \A i \in 0..(call.n - 1) :
                \E j \in 1..Len(ws) : ws[j][1] <= i /\ i < ws[j][2]
          /\ \A j \in 1..Len(ws) : 0 <= ws[j][1] /\ ws[j][1] < ws[j][2] /\ ws[j][2] <= call.n
          /\ \A j \in 1..(Len(ws) - 1) :
                /\ ws[j][2] - ws[j][1] = call.size
                /\ ws[j + 1][1] = ws[j][1] + call.size - call.overlap
          /\ \A j \in 1..(Len(ws) - 2) :
                Min(ws[j][2], ws[j + 1][2]) - ws[j + 1][1] = call.overlap
          /\ (call.n = 0 <=> ws = <<>>)

\* three windows or more with a positive overlap, the last one shorter
C12_Witness ==
    /\ call.op = "chunks"
    /\ call.overlap > 0
    /\ Len(call.out) >= 3
    /\ call.out[Len(call.out)][2] - call.out[Len(call.out)][1] < call.size
    /\ call.out[Len(call.out)][2] = call.n

\* C13: a page whose only section has 500 words, with chunk size 160 and
\* overlap 20 (and a chunk cap of 4 or more, the default being 120), gives
\* exactly 4 chunks starting at words 0, 140, 280 and 420, the last one
\* shorter than 160 words.
C13_ScenarioC ==
    call.op = "extract" /\ call.secs = <<500>> /\ call.size = CHUNK_TOKENS
                        /\ call.overlap = CHUNK_OVERLAP /\ call.cap >= 4 =>
       /\ Len(call.out) = 4
       /\ [j \in 1..4 |-> call.out[j].s] = <<0, 140, 280, 420>>
       /\ \A j \in 1..3 : call.out[j].t - call.out[j].s = CHUNK_TOKENS
       /\ call.out[4].t = 500
       /\ call.out[4].t - call.out[4].s < CHUNK_TOKENS

\* the scenario ran: 500 words, 160 and 20, four chunks
C13_Witness ==
    /\ call.op = "extract"
    /\ call.secs = <<500>>
    /\ call.size = CHUNK_TOKENS
    /\ call.overlap = CHUNK_OVERLAP
    /\ call.cap >= 4
    /\ Len(call.out) = 4

(***************************************************************************)
(* Properties of search_in_path, of the output list and of the stages      *)
(* (specification Spec).                                                   *)
(***************************************************************************)
\* C14: search_in_path ranks only the chunks of the given page and returns
\* at most top_k of them; it runs no suggestion, title-index or full-text
\* stage, leaves the suggestion cache and the lead cache unchanged, and
\* returns [] without raising when the path is absent or the page has no
\* chunk.
C14_SearchInPath ==
    [][call'.op = "search_in_path" =>
          /\ suggest_cache' = suggest_cache
          /\ lead_cache' = lead_cache
          /\ call'.g.trace = <<>>
          /\ call'.g.ftLog = <<>>
          /\ ~call'.g.raised =>
                TopOf(call'.g.result, ExtractChunks(call'.path), call'.top_k)
          /\ ~EntryExists(call'.path) \/ ExtractChunks(call'.path) = <<>> =>
                ~call'.g.raised /\ call'.g.result = <<>>]_vars

\* a cached page of two chunks was ranked and cut to one item
C14_Witness ==
    /\ call.op = "search_in_path"
    /\ call.g.ccHits = 1
    /\ Len(call.g.pathChunks) = 2
    /\ call.top_k = 1
    /\ Len(call.g.result) = 1
    /\ Len(suggest_cache.d) > 0

\* the chunk set the returned list was built from
FinalChunks ==
    IF call.op = "search_in_path" THEN call.g.pathChunks
    ELSE IF call.g.exit = "early" THEN call.g.titleChunks
    ELSE IF call.g.ran2 /\ ~call.g.raised2 THEN call.g.pass2
    ELSE call.g.pass1

\* C15: the list returned by search and by search_in_path is sorted by
\* non-increasing score, holds the top_k highest-scoring chunks of the final
\* chunk set (all of them when there are fewer), and the item at position i
\* has id i, counting from 0.
C15_OrderAndIds ==
    call.op \in {"search", "search_in_path"} /\ ~call.g.raised =>
       LET items == call.g.result
       IN /\ \A i \in 1..Len(items) : items[i].id = i - 1
          /\ \A i \in 1..(Len(items) - 1) : items[i].score >= items[i + 1].score
          /\ call.g.exit \in {"early", "ranked"} =>
                TopOf(items, FinalChunks, call.top_k)
          /\ call.g.exit = "fallback" =>
                /\ Len(items) = Min(call.top_k, Len(FinalChunks))
                /\ Snippets(items) \subseteq Range(FinalChunks)

\* three chunks of different scores ranked, the best two returned
C15_Witness ==
    /\ call.op = "search"
    /\ call.g.exit = "ranked"
    /\ Len(FinalChunks) = 3
    /\ Len(call.g.result) = 2
    /\ call.g.result[1].score > call.g.result[2].score
    /\ call.g.result[1].snippet # FinalChunks[1]

\* the positions of stage st in the trace of the call
At(st) == {i \in 1..Len(call.g.trace) : call.g.trace[i] = st}

\* C16: the title-suggestion stage runs first and exactly once; page rerank
\* only with a candidate; title-stage chunk extraction only with a scored
\* page; full-text search only after the title stage ended without an early
\* exit; a widened pass only after a first pass that produced chunks, and at
\* most once; full-text search at most twice and never after an early exit.
C16_StageOrder ==
    call.op = "search" =>
       /\ At("suggest") = {1}
       /\ At("rerank") \subseteq {2} /\ (At("rerank") # {} => Len(call.g.titlePaths) > 0)
       /\ At("chunks") \subseteq {3} /\ (At("chunks") # {} => At("rerank") = {2}
                                                              /\ Len(call.g.pageScores) > 0)
       /\ Cardinality(At("fulltext")) <= 1
       /\ \A i \in At("fulltext") : i = Len(call.g.trace) \/ call.g.trace[i + 1] = "widened"
       /\ Cardinality(At("widened")) <= 1
       /\ \A i \in At("widened") : /\ i = Len(call.g.trace)
                                     /\ call.g.trace[i - 1] = "fulltext"
                                     /\ Len(call.g.pass1) > 0
       /\ \A i \in At("early") : i = Len(call.g.trace) /\ call.g.trace[i - 1] = "chunks"
       /\ At("early") # {} => At("fulltext") = {} /\ call.g.ftLog = <<>>
       /\ Len(call.g.ftLog) = Cardinality(At("fulltext")) + Cardinality(At("widened"))
       /\ Len(call.g.ftLog) <= 2

\* every stage but the early exit ran, in order
C16_Witness ==
    /\ call.op = "search"
    /\ ~call.g.raised
    /\ call.g.trace = <<"suggest", "rerank", "chunks", "fulltext", "widened">>
    /\ Len(call.g.result) > 0

\* the paths whose fetch fails
Absent == {p \in Paths : ~EntryExists(p)}

\* C17: when the fetch of a candidate path fails in the page rerank or in a
\* chunk extraction loop, search does not raise, nothing is cached for that
\* path, and the call ends as the same call with that path removed from
\* the candidate lists: same items, same caches.
C17_SkipAbsent ==
    [][call'.op = "search" =>
          /\ LRUKeys(chunk_cache') \cap Absent = {}
          /\ LRUKeys(lead_cache') \cap Absent = {}
          /\ call'.f = NoFault => ~call'.g.raised
          /\ (Range(call'.g.titlePaths) \cup Range(world.hits)) \cap Absent # {} =>
                LET other == Search([world EXCEPT !.removed = Absent], chunk_cache,
                                    lead_cache, suggest_cache, call'.q, call'.top_k,
                                    call'.f)
                IN /\ call'.g.result = other.result
                   /\ call'.g.raised = other.raised
                   /\ call'.g.exit = other.exit
                   /\ call'.g.cc = other.cc
                   /\ call'.g.lc = other.lc]_vars

\* an absent path was a title candidate and a recalled path of both
\* full-text passes, and the call returned items
C17_Witness ==
    /\ call.op = "search"
    /\ call.f = NoFault
    /\ Range(call.g.titlePaths) \cap Absent # {}
    /\ Len(call.g.pageScores) > 0
    /\ world.hits = <<4, 5, 2, 1>>
    /\ Len(call.g.ftLog) = 2
    /\ Len(call.g.result) > 0

\* the position at which chunk c was first extracted into the final chunk set
FirstAt(c) == CHOOSE a \in 1..Len(FinalChunks) :
                 FinalChunks[a] = c /\ \A b \in 1..(a - 1) : FinalChunks[b] # c

\* C18: in the ranked list of the early exit, of the full-text stage and of
\* search_in_path, of two chunks with equal similarity the one extracted
\* earlier comes first, and a chunk left out by the cut was not extracted
\* before a returned chunk of the same similarity.
C18_TiesByExtraction ==
    (/\ call.op \in {"search", "search_in_path"}
     /\ ~call.g.raised
     /\ call.g.exit \in {"early", "ranked"}) =>
       LET items == call.g.result
       IN /\ \A i \in 1..Len(items) : \A j \in (i + 1)..Len(items) :
                items[i].score = items[j].score =>
                   FirstAt(items[i].snippet) <= FirstAt(items[j].snippet)
          /\ \A i \in 1..Len(items) : \A a \in 1..Len(FinalChunks) :
                (/\ FinalChunks[a] \notin Snippets(items)
                 /\ world.csim[FinalChunks[a]] = items[i].score) =>
                   FirstAt(items[i].snippet) < a

\* the position of path p in the candidate list of the call
CandidateAt(p) == CHOOSE i \in 1..Len(call.g.titlePaths) : call.g.titlePaths[i] = p

\* the pages whose chunks the title stage extracted
TitleChunkPages == {PageOf(call.g.titleChunks[i]) : i \in 1..Len(call.g.titleChunks)}

\* C19: the scored title candidates are ordered by descending page score,
\* equal scores in candidate order; the title stage extracts chunks from
\* at most max(1, TOP_PAGES) pages, the first ones of that order; a
\* candidate whose entry cannot be fetched or whose lead is empty is never
\* scored, every other candidate is.
C19_PageSelection ==
    call.op = "search" /\ Len(call.g.pageScores) > 0 =>
       LET ps == call.g.pageScores
           best == {ps[i].p : i \in 1..Min(Len(ps), Max(1, TOP_PAGES))}
       IN /\ \A i \in 1..Len(ps) : \A j \in (i + 1)..Len(ps) :
                \/ ps[i].s > ps[j].s
                \/ ps[i].s = ps[j].s /\ CandidateAt(ps[i].p) < CandidateAt(ps[j].p)
          /\ {ps[i].p : i \in 1..Len(ps)} =
                {p \in Range(call.g.titlePaths) : EntryExists(p) /\ HasLead(p)}
          /\ \A i \in 1..Len(ps) : ps[i].s = world.lsim[ps[i].p]
          /\ TitleChunkPages \subseteq best
          /\ Cardinality(TitleChunkPages) <= Max(1, TOP_PAGES)

\* of three scored pages two tie and stand in candidate order; the third, an
\* earlier candidate, was moved behind them and its chunks are not extracted
C19_Witness ==
    /\ call.op = "search"
    /\ Len(call.g.pageScores) = 3
    /\ CandidateAt(call.g.pageScores[1].p) < CandidateAt(call.g.pageScores[2].p)
    /\ call.g.pageScores[1].s = call.g.pageScores[2].s
    /\ call.g.pageScores[2].s > call.g.pageScores[3].s
    /\ CandidateAt(call.g.pageScores[3].p) < CandidateAt(call.g.pageScores[2].p)
    /\ call.g.titleChunks # <<>>
    /\ call.g.pageScores[3].p \notin TitleChunkPages

(***************************************************************************)
(* Properties of the suggestion loop (specification SpecSuggest).          *)
(***************************************************************************)
\* the results of candidates i, i + 1, ... of cands, one after the other
RECURSIVE ResultsFrom(_, _, _)
ResultsFrom(w, cands, i) ==
    IF i > Len(cands) THEN <<>>
    ELSE SuggestResults(w, cands[i]) \o ResultsFrom(w, cands, i + 1)

\* the distinct paths the first n candidates return
DistinctUpTo(w, cands, n) == Range(ResultsFrom(w, SubSeq(cands, 1, n), 1))

\* C20: the paths returned by the suggestion engine are accumulated,
\* skipping duplicates, until SUGGESTION_LIMIT distinct paths are held; no
\* candidate phrase is queried after that; a candidate whose suggest call
\* raises contributes nothing and the candidates after it are still queried.
C20_SuggestAccumulation ==
    call.op = "suggest" =>
       LET cands == Cands(call.q)
           asked == call.st.asked
       IN /\ Dedup(call.st.out)
                = Prefix(Dedup(ResultsFrom(call.w, cands, 1)), SUGGESTION_LIMIT)
          /\ asked = SubSeq(cands, 1, Len(asked))
          /\ \A n \in 1..Len(asked) :
                Cardinality(DistinctUpTo(call.w, cands, n - 1)) < SUGGESTION_LIMIT
          /\ Len(asked) < Len(cands) =>
                Cardinality(DistinctUpTo(call.w, cands, Len(asked))) >= SUGGESTION_LIMIT
          /\ \A n \in 1..Len(asked) :
                asked[n] \in call.w.sugfail =>
                   DistinctUpTo(call.w, cands, n) = DistinctUpTo(call.w, cands, n - 1)

(***************************************************************************)
(* Properties of _title_suggest_paths (specification SpecTitles).          *)
(***************************************************************************)
\* the paths collected by a call that misses the cache: the suggestion
\* engine's, then the title index's
Collected == Suggested(world, call.q).out \o SearchTitles(world, Max(10, SUGGESTION_LIMIT))

\* the place at which path p is first collected
FirstCollected(p) == CHOOSE i \in 1..Len(Collected) :
                        Collected[i] = p /\ \A j \in 1..(i - 1) : Collected[j] # p

\* C21: the list _title_suggest_paths returns has no duplicate and keeps
\* the order in which the paths were first collected, suggestion-engine
\* paths before title-index paths; it is stored under the normalized query
\* (no whitespace run, lowercased); a call whose query normalizes to a
\* stored key returns the stored list, the empty one included, without
\* collecting anything.
C21_SuggestMemo ==
    call.op = "titles" =>
       LET paths == call.r.paths
           key == NormalizeQuery(call.q)
           stored == LRUGet(call.before, key)
       IN /\ \A i \in 1..Len(paths) : \A j \in (i + 1)..Len(paths) : paths[i] # paths[j]
          /\ Range(paths) = Range(Collected)
          /\ \A i \in 1..Len(paths) : \A j \in (i + 1)..Len(paths) :
                FirstCollected(paths[i]) < FirstCollected(paths[j])
          /\ Space \notin Range(key) /\ \A i \in 1..Len(key) : key[i] \notin {"Rome", "ROME"}
          /\ call.q \in {<<"Rome">>, <<Space, "ROME", Space>>} => key = <<"rome">>
          /\ LRUKeys(suggest_cache) = {key}
          /\ LRUGet(suggest_cache, key) = <<[paths |-> paths]>>
          /\ call.r.hit <=> stored # <<>>
          /\ call.r.hit => paths = stored[1].paths

\* a query with whitespace and capitals found the empty list an earlier call
\* had stored under the same key
C21_Witness ==
    /\ call.op = "titles"
    /\ call.q = <<Space, "ROME", Space>>
    /\ call.r.hit
    /\ call.r.paths = <<>>

(***************************************************************************)
(* Properties of the full-text recall (specification SpecRecall).          *)
(***************************************************************************)
\* the place of the first appearance of path p in the search results
FirstHit(p) == CHOOSE i \in 1..Len(call.hits) :
                  call.hits[i] = p /\ \A j \in 1..(i - 1) : call.hits[j] # p

\* C22: the first pass asks for max(200, MAX_ARTICLES * 10) hits; the
\* recalled path list has no duplicate, keeps the order of first appearance
\* in the search results and has at most recall-limit paths; a full-text
\* search that raises gives the empty list.
C22_RecallList ==
    call.op = "recall" =>
       LET out == call.out
       IN /\ call.wanted = Max(200, MAX_ARTICLES * 10)
          /\ Range(out) \subseteq Range(call.hits)
          /\ \A i \in 1..Len(out) : \A j \in (i + 1)..Len(out) :
                out[i] # out[j] /\ FirstHit(out[i]) < FirstHit(out[j])
          /\ Len(out) <= call.limit
          /\ call.ft = 1 => out = <<>>

(***************************************************************************)
(* Properties of the accumulation loop (specification SpecAccumulate).     *)
(***************************************************************************)
\* the chunks of pages i, i + 1, ... of the list, whole, one after the other
RECURSIVE ChunksOfPages(_, _)
ChunksOfPages(paths, i) ==
    IF i > Len(paths) THEN <<>>
    ELSE (IF EntryExists(paths[i]) THEN ExtractChunks(paths[i]) ELSE <<>>)
            \o ChunksOfPages(paths, i + 1)

\* the pages of the list the loop has to go through: up to the first one
\* with which MAX_CHUNKS chunks are available
Needed(paths) ==
    IF \E n \in 0..Len(paths) : Len(ChunksOfPages(SubSeq(paths, 1, n), 1)) >= MAX_CHUNKS
    THEN SubSeq(paths, 1, CHOOSE n \in 0..Len(paths) :
                    /\ Len(ChunksOfPages(SubSeq(paths, 1, n), 1)) >= MAX_CHUNKS
                    /\ \A m \in 0..(n - 1) :
                          Len(ChunksOfPages(SubSeq(paths, 1, m), 1)) < MAX_CHUNKS)
    ELSE paths

\* the number of places of the list that hold a page with chunks
WithChunks(paths) ==
    Cardinality({i \in 1..Len(paths) :
                    EntryExists(paths[i]) /\ ExtractChunks(paths[i]) # <<>>})

\* C23: a chunk accumulation loop never holds more than MAX_CHUNKS chunks;
\* once it holds MAX_CHUNKS no further page is looked up or encoded; the
\* last page is cut to the remaining budget; texts, metadata and embedding
\* rows have the same length and name the same chunks index by index.
C23_GlobalCap ==
    call.op = "accumulate" =>
       LET st == call.st
       IN /\ Len(st.texts) <= MAX_CHUNKS
          /\ st.meta = st.texts /\ st.embs = st.texts
          /\ ~st.raised =>
                /\ st.texts = Prefix(ChunksOfPages(call.paths, 1), MAX_CHUNKS)
                /\ st.enc + st.hits = WithChunks(Needed(call.paths))
          /\ st.enc + st.hits <= WithChunks(Needed(call.paths))

\* three pages with chunks: the second was cut to one chunk, the third
\* was neither looked up nor encoded
C23_Witness ==
    /\ call.op = "accumulate"
    /\ call.paths = <<1, 2, 4>>
    /\ call.st.texts = <<11, 12, 21>>
    /\ call.st.enc = 1
    /\ call.st.hits = 1

(***************************************************************************)
(* Properties of concurrent calls (specification SpecConcurrent).          *)
(***************************************************************************)
\* what the loop of call pr gathers when it runs alone on the cache found
Alone(pr) ==
    ChunkLoop(world, [enc |-> 0, ft |-> 0], pr.paths, 1,
              [cc |-> call.found, enc |-> 0, texts |-> <<>>, meta |-> <<>>,
               embs |-> <<>>, raised |-> FALSE, hits |-> 0])

DoneAt == {i \in 1..Len(call.st.events) : call.st.events[i] = "done"}

\* C25: a stream yields the done event at most once, only on a [DONE]
\* line, and nothing after it; the fallback request is issued at most once,
\* only on [DONE] and only when no token event was yielded before; whatever
\* the fallback request answers, raising included, the done event follows.
C25_StreamProtocol ==
    call.op = "stream" =>
       LET st == call.st
       IN /\ Cardinality(DoneAt) <= 1
          /\ DoneAt \subseteq {Len(st.events)}
          /\ DoneAt # {} =>
                st.pc = "closed" /\ st.lines # <<>> /\ st.lines[Len(st.lines)] = "done"
          /\ st.fallbacks <= 1
          /\ st.fallbacks = 1 =>
                /\ st.lines[Len(st.lines)] = "done"
                /\ "token" \notin Range(st.fbBefore)
                /\ DoneAt # {}
          /\ "done" \in Range(st.lines) => DoneAt # {}

\* after a raw event and no token, the fallback request raised and the done
\* event was yielded all the same
C25_Witness ==
    /\ call.op = "stream"
    /\ call.st.fallbacks = 1
    /\ call.st.fbAnswer = "raise"
    /\ call.st.events = <<"raw", "done">>

(***************************************************************************)
(* The content of the chunk cache (specification Spec).                    *)
(***************************************************************************)
\* C26: every entry of the chunk cache, whichever of search,
\* _recall_and_chunks and search_in_path wrote it, holds the full chunk
\* list of its page, never the list cut to the remaining chunk budget; the
\* list is not empty; texts, metadata and embedding rows are equally long;
\* a hit gives what a fresh extraction of the page gives.
C26_CacheContent ==
    \A i \in 1..Len(chunk_cache.d) :
       LET e == chunk_cache.d[i]
       IN /\ EntryExists(e.k)
          /\ e.v.texts = ExtractChunks(e.k)
          /\ e.v.texts # <<>>
          /\ Len(e.v.meta) = Len(e.v.texts) /\ Len(e.v.emb) = Len(e.v.texts)
          /\ e.v = FreshEntry(e.k)

\* the full-text pass took one chunk of page 2, the last within the budget,
\* and the cache holds both chunks of that page
C26_Witness ==
    /\ call.op = "search"
    /\ call.g.pass1 = <<11, 12, 21>>
    /\ call.g.ccHits = 0
    /\ LRUGet(chunk_cache, 2) # <<>>
    /\ LRUGet(chunk_cache, 2)[1].texts = <<21, 22>>

(***************************************************************************)
(* Termination of _chunks (specification SpecLoop).                        *)
(***************************************************************************)
\* the generator runs with an overlap smaller than the window size
Chunking == call.op = "chunking" /\ call.overlap < call.size

\* C27: with a window size S >= 1 and an overlap O, 0 <= O < S, _chunks
\* ends after finitely many windows, the windows of ChunksOf, and the
\* starts of its windows increase strictly; with O >= S an iteration does
\* not move the start forward.
C27_Termination ==
    /\ [](Chunking =>
            /\ \A j \in 1..(Len(call.out) - 1) : call.out[j][1] < call.out[j + 1][1]
            /\ Len(call.out) <= call.n
            /\ call.done => call.out = ChunksOf(call.n, call.size, call.overlap))
    /\ (Chunking ~> (Chunking /\ call.done))
    /\ [][(/\ call.op = "chunking" /\ call'.op = "chunking"
           /\ call.overlap >= call.size /\ ~call'.done)
             => call'.start <= call.start]_vars

\* a generator that ended after three windows or more, with an overlap
C27_Witness ==
    /\ Chunking
    /\ call.done
    /\ call.overlap > 0
    /\ Len(call.out) >= 3

\* the page rerank loop of a search over the candidates the call returned,
\* with nothing cached and a working encoder
RerankOfCandidates ==
    RerankLoop([lsim |-> [p \in 1..3 |-> TITLE_SIM_EXIT]], [enc |-> 0, ft |-> 0],
               call.r.paths, 1,
               [lc |-> LRUInit(0), enc |-> 0, scores |-> <<>>, raised |-> FALSE,
                hits |-> 0])

\* C28: _title_suggest_paths never returns more than
\* SUGGESTION_LIMIT + max(10, SUGGESTION_LIMIT) paths: at most
\* SUGGESTION_LIMIT come from the suggestion engine, at most
\* max(10, SUGGESTION_LIMIT) from the title index; the page rerank of a
\* search therefore embeds and scores at most that many candidates.
C28_BoundedCandidates ==
    call.op = "titles" =>
       /\ Len(call.r.paths) <= SUGGESTION_LIMIT + Max(10, SUGGESTION_LIMIT)
       /\ Len(Suggested(world, call.q).out) <= SUGGESTION_LIMIT
       /\ Len(SearchTitles(world, Max(10, SUGGESTION_LIMIT))) <= Max(10, SUGGESTION_LIMIT)
       /\ Len(call.r.paths) <= Len(Suggested(world, call.q).out)
                                  + Len(SearchTitles(world, Max(10, SUGGESTION_LIMIT)))
       /\ RerankOfCandidates.enc <= Len(call.r.paths)
       /\ Len(RerankOfCandidates.scores) <= Len(call.r.paths)

\* the suggestion engine gave SUGGESTION_LIMIT paths, the title index more
\* rows than its limit: the list has as many paths as it can have, and the
\* rerank embeds the one candidate among them that has a lead
C28_Witness ==
    /\ call.op = "titles"
    /\ Len(world.trows) > Max(10, SUGGESTION_LIMIT)
    /\ Len(call.r.paths) = SUGGESTION_LIMIT + Max(10, SUGGESTION_LIMIT)
    /\ RerankOfCandidates.enc = 1
    /\ Len(RerankOfCandidates.scores) = 1

====
